---- MODULE Spec2Model ----
(***************************************************************************)
(* A model of the algorithms of the repository: the priority-queue-driven  *)
(* graph algorithms (src/src/dijkstra.ts: MinHeap, dijkstra;               *)
(* src/src/LCA.ts: LCA, astarGrid) and the functions that keep nothing     *)
(* between calls (topologicalSort, quickSort, kruskal, kmpSearch,          *)
(* knapsack).  Every component has its own variables and its own program   *)
(* counter; a component that a specification does not exercise rests in    *)
(* its "idle" state.                                                       *)
(*                                                                         *)
(* JavaScript arrays are 0-based, TLA+ sequences 1-based: the element at   *)
(* JavaScript index i of an array a is a[i + 1].                           *)
(***************************************************************************)
EXTENDS Integers, Sequences, FiniteSets, Bags, TLC

VARIABLES
    \* a MinHeap object driven directly by its caller
    data,       \* MinHeap.data, the backing array
    res,        \* what the last pop returned: Null or <<entry>>
    hop,        \* the last operation on the heap: "idle", "new", "push", "pop"
    \* one call of dijkstra(adj, src)
    adj,        \* the adjacency argument: for node u, adj[u] = sequence of <<v, w>>
    src,        \* the source argument
    dist,       \* the distance table
    pq,         \* the data array of the MinHeap pq
    u,          \* the node whose edges the for loop walks
    ei,         \* how many edges of adj[u] the for loop has taken
    dpc,        \* "idle", "call", "loop", "edges", "done", "error"
    lastKey,    \* the key of the last entry popped that was not stale (0 before)
    expanded,   \* the nodes whose out-edges the for loop has walked or walks
    \* one call of astarGrid(start, goal, grid)
    grid,       \* the grid argument: grid[x][y], 1 = blocked
    start,      \* the start argument <<x, y>>
    goal,       \* the goal argument <<x, y>>
    open,       \* the Map open, as its entries <<key, f>> in insertion order
    gScore,     \* the Map gScore
    parent,     \* the Map parent
    path,       \* the path returned, once apc = "path"
    apc,        \* "idle", "call", "loop", "path" (a path returned), "null" (null returned)
    \* one LCA object: new LCA(tadj, root), then calls of query
    tadj,       \* this.adj, the adjacency lists given to the constructor
    root,       \* the root given to the constructor
    LOG,        \* this.LOG
    up,         \* this.up
    depth,      \* this.depth
    qa,         \* the arguments <<u, v>> of the query under way or last returned
    qu,         \* query's u (0 when no query is under way)
    qv,         \* query's v (0 when no query is under way)
    diff,       \* query's diff (0 when no query is under way)
    qk,         \* the loop variable k of query (0 when no query is under way)
    ret,        \* what query returned, when lpc = "returned" (0 otherwise)
    lpc,        \* "idle", "new", "threw", "built", "lift", "search", "returned"
    \* one call of a function that keeps nothing between calls
    fn,         \* the function called ("" when none is)
    args,       \* its arguments
    work,       \* its local variables, while the call is under way
    out,        \* what it returned, once fpc = "returned"
    fpc         \* "idle", "call", "run", "returned"

heapVars == <<data, res, hop>>
dijVars == <<adj, src, dist, pq, u, ei, dpc, lastKey, expanded>>
astarVars == <<grid, start, goal, open, gScore, parent, path, apc>>
lcaVars == <<tadj, root, LOG, up, depth, qa, qu, qv, diff, qk, ret, lpc>>
fnVars == <<fn, args, work, out, fpc>>
vars == <<heapVars, dijVars, astarVars, lcaVars, fnVars>>

----------------------------------------------------------------------------
\* Bounds of the model.

\* the largest number of entries a directly driven heap holds
MaxHeap == 4
\* keys pushed on a directly driven heap are 0..MaxKey
MaxKey == 2
\* the payloads pushed on a directly driven heap
Payloads == {"a", "b"}
\* dijkstra runs on graphs of at most MaxNodes nodes
MaxNodes == 3
\* ... with at most MaxEdges edges
MaxEdges == 2
\* ... of weights 0..MaxWeight
MaxWeight == 1
\* astarGrid runs on grids of at most MaxRows rows
MaxRows == 2
\* ... and at most MaxCols columns
MaxCols == 3
\* ... with at most MaxBlocked blocked cells
MaxBlocked == 2
\* LCA objects are built on at most MaxTree nodes
MaxTree == 5
\* the most nodes of a graph given to the LCA constructor that need not be
\* a tree
MaxGraph == 4

----------------------------------------------------------------------------
\* JavaScript values.

\* null, as the result of pop; a non-null result e is <<e>>
Null == <<>>
\* the number Infinity (every other number of the model is >= 0)
Infinity == -1
\* undefined, the value of an array read outside the array (every number
\* the model stores in an array or passes as an index is >= -2)
Undefined == -9
\* NaN, the difference of undefined and a number
NaN == -8
\* a > b on numbers that are >= 0 or Infinity
NumGt(a, b) == a # b /\ (a = Infinity \/ (b # Infinity /\ a > b))
\* a + b on numbers that are >= 0 or Infinity
NumPlus(a, b) == IF a = Infinity \/ b = Infinity THEN Infinity ELSE a + b

----------------------------------------------------------------------------
\* class MinHeap

Entry(key, val) == [key |-> key, val |-> val]

\* [this.data[i], this.data[j]] = [this.data[j], this.data[i]]
Swap(d, i, j) == [d EXCEPT ![i + 1] = d[j + 1], ![j + 1] = d[i + 1]]

\* the while loop of push, from index i
\* a slip: the new entry rises by one level at most
SiftUpOnce(d, i) ==
    IF i > 0
    THEN LET p == (i - 1) \div 2
         IN  IF d[p + 1].key <= d[i + 1].key THEN d ELSE Swap(d, p, i)
    ELSE d

RECURSIVE SiftUp(_, _)
SiftUp(d, i) ==
    IF i > 0
    THEN LET p == (i - 1) \div 2
         IN  IF d[p + 1].key <= d[i + 1].key THEN d ELSE SiftUp(Swap(d, p, i), p)
    ELSE d

\* a slip: an entry equal to one already held is not stored again
HeapPushUnique(d, key, val) ==
    IF \E i \in 1..Len(d) : d[i] = Entry(key, val)
    THEN d
    ELSE SiftUp(Append(d, Entry(key, val)), Len(d))

\* the data array after push(key, val)
HeapPush(d, key, val) == SiftUp(Append(d, Entry(key, val)), Len(d))

\* a slip: the right child is never looked at
SmallestLeftOnly(d, i) ==
    LET l == i * 2 + 1
    IN  IF l < Len(d) /\ d[l + 1].key < d[i + 1].key THEN l ELSE i

\* the index smallest of one iteration of pop's loop
Smallest(d, i) ==
    LET l == i * 2 + 1
        r == i * 2 + 2
        s == IF l < Len(d) /\ d[l + 1].key < d[i + 1].key THEN l ELSE i
    IN  IF r < Len(d) /\ d[r + 1].key < d[s + 1].key THEN r ELSE s

\* the while (true) loop of pop, from index i
RECURSIVE SiftDown(_, _)
SiftDown(d, i) ==
    LET smallest == Smallest(d, i)
    IN  IF smallest = i THEN d ELSE SiftDown(Swap(d, i, smallest), smallest)

\* the value pop returns
HeapPopRes(d) == IF Len(d) = 0 THEN Null ELSE <<d[1]>>

\* a slip: the root is handed out and the last entry dropped without
\* taking the root's place
HeapPopDataDropLast(d) == IF Len(d) = 0 THEN d ELSE SubSeq(d, 1, Len(d) - 1)

\* the data array after pop
HeapPopData(d) ==
    IF Len(d) = 0
    THEN d
    ELSE LET last == d[Len(d)]
             rest == SubSeq(d, 1, Len(d) - 1)
         IN  IF Len(rest) > 0 THEN SiftDown([rest EXCEPT ![1] = last], 0) ELSE rest

\* size()
HeapSize(d) == Len(d)

----------------------------------------------------------------------------
\* A MinHeap driven by a caller: any sequence of push and pop.

HeapIdle == data = <<>> /\ res = Null /\ hop = "idle"

HeapInit == data = <<>> /\ res = Null /\ hop = "new"

Push ==
    /\ hop # "idle"
    /\ Len(data) < MaxHeap
    /\ \E key \in 0..MaxKey, val \in Payloads :
           data' = HeapPush(data, key, val)
    /\ hop' = "push"
    /\ UNCHANGED <<res, dijVars, astarVars, lcaVars, fnVars>>

Pop ==
    /\ hop # "idle"
    /\ res' = HeapPopRes(data)
    /\ data' = HeapPopData(data)
    /\ hop' = "pop"
    /\ UNCHANGED <<dijVars, astarVars, lcaVars, fnVars>>

----------------------------------------------------------------------------
\* dijkstra(adj, src)

\* every sequence over S of length at most n
SeqsUpTo(S, n) == UNION {[1..k -> S] : k \in 0..n}

\* the entries of the edge list es that leave node x, in their order, as <<v, w>>
RECURSIVE EdgesFrom(_, _)
EdgesFrom(es, x) ==
    IF es = <<>>
    THEN <<>>
    ELSE LET e == Head(es)
         IN  IF e[1] = x
             THEN <<(<<e[2], e[3]>>)>> \o EdgesFrom(Tail(es), x)
             ELSE EdgesFrom(Tail(es), x)

\* the adjacency lists of n nodes with the edges es
AdjOf(n, es) == [x \in 0..(n - 1) |-> EdgesFrom(es, x)]

\* a slip: an entry as good as the table is discarded as well
StaleOrEqual(d, du) == ~NumGt(du, d)

\* a slip: no entry is discarded
StaleNever(d, du) == FALSE

\* if (d > dist[u]) continue
Stale(d, du) == NumGt(d, du)

\* a slip: only a node never reached before is updated
ImprovesUnreachedOnly(dv, du, w) == dv = Infinity

\* a slip: a distance that is no improvement is written as well
ImprovesOrEqual(dv, du, w) == ~NumGt(NumPlus(du, w), dv)

\* a slip: whatever differs from the table is written
ImprovesNotEqual(dv, du, w) == dv # NumPlus(du, w)

\* if (dist[v] > dist[u] + w)
Improves(dv, du, w) == NumGt(dv, NumPlus(du, w))

DijIdle ==
    /\ adj = <<>> /\ src = 0 /\ dist = <<>> /\ pq = <<>>
    /\ u = 0 /\ ei = 0 /\ dpc = "idle"
    /\ lastKey = 0 /\ expanded = {}

\* the arguments of a call: a graph of at most MaxNodes nodes and MaxEdges
\* edges with weights 0..MaxWeight, and a source that lies at most margin
\* outside the index range of adj
DijArgs(margin) ==
    /\ \E n \in 0..MaxNodes :
         /\ \E es \in SeqsUpTo((0..(n - 1)) \X (0..(n - 1)) \X (0..MaxWeight), MaxEdges) :
                adj = AdjOf(n, es)
         /\ src \in (-margin)..(n - 1 + margin)
    /\ dist = <<>> /\ pq = <<>>
    /\ u = 0 /\ ei = 0 /\ dpc = "call"
    /\ lastKey = 0 /\ expanded = {}

\* a call with an in-range source
DijInit == DijArgs(0)

\* lines 36-40: the table, dist[src] = 0 (on an out-of-range src this adds
\* the property src to the array), pq.push(0, src)
DijCall ==
    /\ dpc = "call"
    /\ dist' = [x \in DOMAIN adj \cup {src} |-> IF x = src THEN 0 ELSE Infinity]
    /\ pq' = HeapPush(<<>>, 0, src)
    /\ dpc' = "loop"
    /\ UNCHANGED <<adj, src, u, ei, lastKey, expanded, heapVars, astarVars, lcaVars, fnVars>>

\* lines 42-45: an entry is popped and found stale
DijPopStale ==
    /\ dpc = "loop" /\ HeapSize(pq) # 0
    /\ LET cur == HeapPopRes(pq)[1]
       IN  /\ Stale(cur.key, dist[cur.val])
           /\ u' = cur.val
    /\ pq' = HeapPopData(pq)
    /\ UNCHANGED <<adj, src, dist, ei, dpc, lastKey, expanded, heapVars, astarVars, lcaVars, fnVars>>

\* lines 42-46: an entry is popped that is not stale; the for loop begins
\* (adj[u] of a node that is no index of adj is undefined, and iterating
\* it throws a TypeError)
DijPopFresh ==
    /\ dpc = "loop" /\ HeapSize(pq) # 0
    /\ LET cur == HeapPopRes(pq)[1]
       IN  /\ ~Stale(cur.key, dist[cur.val])
           /\ u' = cur.val
           /\ dpc' = IF cur.val \in DOMAIN adj THEN "edges" ELSE "error"
           /\ lastKey' = cur.key
           /\ expanded' = expanded \cup {cur.val}
    /\ pq' = HeapPopData(pq)
    /\ ei' = 0
    /\ UNCHANGED <<adj, src, dist, heapVars, astarVars, lcaVars, fnVars>>

\* lines 46-51: one iteration of the for loop
DijRelax ==
    /\ dpc = "edges" /\ ei < Len(adj[u])
    /\ LET v == adj[u][ei + 1][1]
           w == adj[u][ei + 1][2]
       IN  IF Improves(dist[v], dist[u], w)
           THEN /\ dist' = [dist EXCEPT ![v] = NumPlus(dist[u], w)]
                /\ pq' = HeapPush(pq, dist'[v], v)
           ELSE UNCHANGED <<dist, pq>>
    /\ ei' = ei + 1
    /\ UNCHANGED <<adj, src, u, dpc, lastKey, expanded, heapVars, astarVars, lcaVars, fnVars>>

\* the for loop is over: back to while (pq.size())
DijEndFor ==
    /\ dpc = "edges" /\ ei = Len(adj[u])
    /\ dpc' = "loop"
    /\ UNCHANGED <<adj, src, dist, pq, u, ei, lastKey, expanded, heapVars, astarVars, lcaVars, fnVars>>

\* line 53: the queue is empty, dist is returned
DijReturn ==
    /\ dpc = "loop" /\ HeapSize(pq) = 0
    /\ dpc' = "done"
    /\ UNCHANGED <<adj, src, dist, pq, u, ei, lastKey, expanded, heapVars, astarVars, lcaVars, fnVars>>

----------------------------------------------------------------------------
\* astarGrid(start, goal, grid)

\* A string is the sequence of its characters.
Digits == <<"0", "1", "2", "3", "4", "5", "6", "7", "8", "9">>

\* the decimal digits of n >= 0
RECURSIVE NatStr(_)
NatStr(n) ==
    IF n < 10 THEN <<Digits[n + 1]>> ELSE NatStr(n \div 10) \o <<Digits[(n % 10) + 1]>>

\* `${x}` of an integer x
NumStr(x) == IF x < 0 THEN <<"-">> \o NatStr(-x) ELSE NatStr(x)

\* key(x, y): `${x},${y}`
key(x, y) == NumStr(x) \o <<",">> \o NumStr(y)

\* s.split(',')
RECURSIVE Split(_)
Split(s) ==
    IF \A i \in 1..Len(s) : s[i] # ","
    THEN <<s>>
    ELSE LET c == CHOOSE i \in 1..Len(s) : s[i] = "," /\ \A j \in 1..(i - 1) : s[j] # ","
         IN  <<SubSeq(s, 1, c - 1)>> \o Split(SubSeq(s, c + 1, Len(s)))

DigitVal(c) == CHOOSE d \in 0..9 : Digits[d + 1] = c

\* the value of a string of decimal digits (Number("") is 0)
RECURSIVE NatVal(_)
NatVal(t) ==
    IF Len(t) = 0 THEN 0 ELSE NatVal(SubSeq(t, 1, Len(t) - 1)) * 10 + DigitVal(t[Len(t)])

\* Number(t) of the decimal notation t of an integer
Number(t) == IF Len(t) > 0 /\ t[1] = "-" THEN -NatVal(Tail(t)) ELSE NatVal(t)

\* const [cx, cy] = k.split(',').map(Number)
KeyCell(k) == LET parts == Split(k) IN <<Number(parts[1]), Number(parts[2])>>

\* Math.abs
Abs(x) == IF x < 0 THEN -x ELSE x

\* grid.length and grid[0].length
GridR(g) == Cardinality(DOMAIN g)
GridC(g) == Cardinality(DOMAIN g[0])

inBounds(g, x, y) == x >= 0 /\ y >= 0 /\ x < GridR(g) /\ y < GridC(g)

\* h(x, y), for the goal gl
h(gl, x, y) == Abs(x - gl[1]) + Abs(y - gl[2])

\* a slip: the last direction is a diagonal
dirsDiagonal == <<(<<1, 0>>), (<<-1, 0>>), (<<0, 1>>), (<<1, -1>>)>>

dirs == <<(<<1, 0>>), (<<-1, 0>>), (<<0, 1>>), (<<0, -1>>)>>

\* m.set(k, v) on a Map read only by key
MapSet(m, k, v) == [x \in DOMAIN m \cup {k} |-> IF x = k THEN v ELSE m[x]]

\* a slip: a cell without a score counts as already reached at cost 0
GetOrZero(m, k) == IF k \in DOMAIN m THEN m[k] ELSE 0

\* gScore.get(k) ?? Infinity
GetOrInfinity(m, k) == IF k \in DOMAIN m THEN m[k] ELSE Infinity

\* parent.get(k) ?? null
GetOrNull(m, k) == IF k \in DOMAIN m THEN m[k] ELSE Null

\* open.set(k, f): a key already there keeps its place in the iteration order
OpenSet(o, k, f) ==
    IF \E i \in 1..Len(o) : o[i][1] = k
    THEN [i \in 1..Len(o) |-> IF o[i][1] = k THEN <<k, f>> ELSE o[i]]
    ELSE Append(o, <<k, f>>)

\* open.delete(k)
OpenDelete(o, k) ==
    LET keep(e) == e[1] # k IN SelectSeq(o, keep)

\* for (const [k, f] of open) if (f < curF) { curF = f; curKey = k; }
\* from entry i on, with curKey and curF as they stand
RECURSIVE Scan(_, _, _, _)
Scan(o, i, curKey, curF) ==
    IF i > Len(o)
    THEN curKey
    ELSE IF NumGt(curF, o[i][2])
         THEN Scan(o, i + 1, o[i][1], o[i][2])
         ELSE Scan(o, i + 1, curKey, curF)

\* a slip: the comparison is turned around and the largest f is taken
CurKeyLargestF(o) ==
    IF Len(o) = 0
    THEN Null
    ELSE o[CHOOSE i \in 1..Len(o) :
               /\ \A j \in 1..Len(o) : o[j][2] <= o[i][2]
               /\ \A j \in 1..(i - 1) : o[j][2] < o[i][2]][1]

\* curKey after the scan of lines 60-62
CurKey(o) == Scan(o, 1, Null, Infinity)

\* const tentativeG = gCur + 1
TentativeG(gCur) == gCur + 1

\* if (tentativeG < (gScore.get(nk) ?? Infinity))
Better(tentativeG, known) == NumGt(known, tentativeG)

\* one iteration of the for loop over dirs (lines 79-87), on the maps st
Visit(st, g, gl, curKey, c, gCur, d) ==
    LET nx == c[1] + d[1]
        ny == c[2] + d[2]
    IN  IF ~inBounds(g, nx, ny)
        THEN st
        ELSE IF g[nx][ny] = 1
        THEN st
        ELSE LET nk == key(nx, ny)
                 tentativeG == TentativeG(gCur)
             IN  IF Better(tentativeG, GetOrInfinity(st.gScore, nk))
                 THEN [parent |-> MapSet(st.parent, nk, curKey),
                       gScore |-> MapSet(st.gScore, nk, tentativeG),
                       open |-> OpenSet(st.open, nk, tentativeG + h(gl, nx, ny))]
                 ELSE st

\* the for loop over dirs, from direction i on
RECURSIVE VisitAll(_, _, _, _, _, _, _)
VisitAll(st, g, gl, curKey, c, gCur, i) ==
    IF i > Len(dirs)
    THEN st
    ELSE VisitAll(Visit(st, g, gl, curKey, c, gCur, dirs[i]), g, gl, curKey, c, gCur, i + 1)

\* a slip: the walk stops at the cell that has no parent without adding it
RECURSIVE PathToExclusive(_, _)
PathToExclusive(par, p) ==
    IF GetOrNull(par, p) = Null
    THEN <<>>
    ELSE PathToExclusive(par, GetOrNull(par, p)) \o <<KeyCell(p)>>

\* lines 67-74: the cells from p back along parent, reversed
RECURSIVE PathTo(_, _)
PathTo(par, p) ==
    IF p = Null \/ p = <<>>
    THEN <<>>
    ELSE PathTo(par, GetOrNull(par, p)) \o <<KeyCell(p)>>

\* the grid of R rows and C columns whose blocked cells are those of B
GridOf(R, C, B) ==
    [x \in 0..(R - 1) |-> [y \in 0..(C - 1) |-> IF <<x, y>> \in B THEN 1 ELSE 0]]

AstarIdle ==
    /\ grid = <<>> /\ start = <<>> /\ goal = <<>>
    /\ open = <<>> /\ gScore = <<>> /\ parent = <<>> /\ path = <<>> /\ apc = "idle"

\* the arguments of a call: a grid of at most MaxRows x MaxCols cells of
\* which at most MaxBlocked are blocked; start and goal lie at most margin
\* steps outside the grid
AstarArgs(margin) ==
    /\ \E R \in 1..MaxRows, C \in 1..MaxCols :
         /\ \E B \in SUBSET ((0..(R - 1)) \X (0..(C - 1))) :
                /\ Cardinality(B) <= MaxBlocked
                /\ grid = GridOf(R, C, B)
         /\ start \in ((-margin)..(R - 1 + margin)) \X ((-margin)..(C - 1 + margin))
         /\ goal \in ((-margin)..(R - 1 + margin)) \X ((-margin)..(C - 1 + margin))
    /\ open = <<>> /\ gScore = <<>> /\ parent = <<>> /\ path = <<>> /\ apc = "call"

\* a call with start and goal in bounds
AstarInit == AstarArgs(0)

\* lines 48-58
AstarCall ==
    /\ apc = "call"
    /\ LET startKey == key(start[1], start[2])
       IN  /\ open' = <<(<<startKey, h(goal, start[1], start[2])>>)>>
           /\ gScore' = MapSet(<<>>, startKey, 0)
           /\ parent' = MapSet(<<>>, startKey, Null)
    /\ apc' = "loop"
    /\ UNCHANGED <<grid, start, goal, path, heapVars, dijVars, lcaVars, fnVars>>

\* lines 59-76: the entry taken from open is the goal; the path is returned
AstarGoal ==
    /\ apc = "loop" /\ Len(open) # 0
    /\ LET curKey == CurKey(open)
       IN  /\ curKey # Null
           /\ KeyCell(curKey) = goal
           /\ open' = OpenDelete(open, curKey)
           /\ path' = PathTo(parent, curKey)
    /\ apc' = "path"
    /\ UNCHANGED <<grid, start, goal, gScore, parent, heapVars, dijVars, lcaVars, fnVars>>

\* a slip: the cell taken from open is closed by marking it in the grid
AstarExpandClosing ==
    /\ apc = "loop" /\ Len(open) # 0
    /\ LET curKey == CurKey(open)
       IN  /\ curKey # Null
           /\ KeyCell(curKey) # goal
           /\ LET c == KeyCell(curKey)
                  st == VisitAll([parent |-> parent, gScore |-> gScore,
                                  open |-> OpenDelete(open, curKey)],
                                 grid, goal, curKey, c, gScore[curKey], 1)
              IN  /\ open' = st.open
                  /\ gScore' = st.gScore
                  /\ parent' = st.parent
                  /\ grid' = IF inBounds(grid, c[1], c[2])
                             THEN [grid EXCEPT ![c[1]][c[2]] = 1]
                             ELSE grid
    /\ UNCHANGED <<start, goal, path, apc, heapVars, dijVars, lcaVars, fnVars>>

\* lines 59-88: the entry taken from open is not the goal; its neighbours
\* are visited
AstarExpand ==
    /\ apc = "loop" /\ Len(open) # 0
    /\ LET curKey == CurKey(open)
       IN  /\ curKey # Null
           /\ KeyCell(curKey) # goal
           /\ LET st == VisitAll([parent |-> parent, gScore |-> gScore,
                                  open |-> OpenDelete(open, curKey)],
                                 grid, goal, curKey, KeyCell(curKey), gScore[curKey], 1)
              IN  /\ open' = st.open
                  /\ gScore' = st.gScore
                  /\ parent' = st.parent
    /\ UNCHANGED <<grid, start, goal, path, apc, heapVars, dijVars, lcaVars, fnVars>>

\* lines 59, 63 and 90: open is empty (or the scan found no key): null
AstarNull ==
    /\ apc = "loop"
    /\ IF Len(open) = 0 THEN TRUE ELSE CurKey(open) = Null
    /\ apc' = "null"
    /\ UNCHANGED <<grid, start, goal, open, gScore, parent, path, heapVars, dijVars, lcaVars, fnVars>>

----------------------------------------------------------------------------
\* class LCA

\* a[i] of an array a: undefined outside the array
ArrGet(a, i) == IF i \in DOMAIN a THEN a[i] ELSE Undefined

\* a slip: the comparison is turned around
JsGt(a, b) == a # Undefined /\ b # Undefined /\ a > b

\* a < b, where a or b may be undefined (the comparison is then false)
JsLt(a, b) == a # Undefined /\ b # Undefined /\ a < b

\* a - b, where a or b may be undefined (the difference is then NaN)
JsMinus(a, b) == IF a = Undefined \/ b = Undefined THEN NaN ELSE a - b

RECURSIVE Pow2(_)
Pow2(e) == IF e = 0 THEN 1 ELSE 2 * Pow2(e - 1)

\* a slip: the bit test always succeeds
BitSetAlways(d, e) == d # NaN

\* diff & (1 << qk), as a condition, for diff >= 0 or NaN (NaN & x is 0)
BitSet(d, e) == d # NaN /\ (d \div Pow2(e)) % 2 = 1

\* a slip: the logarithm is rounded down
FloorLog2(n) == CHOOSE L \in 0..n : Pow2(L) <= n /\ n < Pow2(L + 1)

\* Math.ceil(Math.log2(n)) for n >= 1
CeilLog2(n) == CHOOSE L \in 0..n : Pow2(L) >= n /\ \A M \in 0..(L - 1) : Pow2(M) < n

\* more frames than this on the stack of dfs repeat a call dfs(u, p): the
\* recursion never ends and the engine throws a RangeError
StackLimit(n) == n * n + 1

\* dfs(u, p) on the tables t = [up0, depth, overflow], with room for fuel
\* more frames; DfsLoop is its for loop from entry i of adj[u] on
RECURSIVE Dfs(_, _, _, _, _)
RECURSIVE DfsLoop(_, _, _, _, _, _)
\* a slip: the node is recorded as its own parent
DfsSelfParent(t, a, x, p, fuel) ==
    IF fuel = 0
    THEN [t EXCEPT !.overflow = TRUE]
    ELSE DfsLoop([t EXCEPT !.up0[x] = x], a, x, p, 1, fuel)

Dfs(t, a, x, p, fuel) ==
    IF fuel = 0
    THEN [t EXCEPT !.overflow = TRUE]
    ELSE DfsLoop([t EXCEPT !.up0[x] = p], a, x, p, 1, fuel)

DfsLoop(t, a, x, p, i, fuel) ==
    IF t.overflow \/ i > Len(a[x])
    THEN t
    ELSE LET v == a[x][i]
         IN  IF v # p
             THEN DfsLoop(Dfs([t EXCEPT !.depth[v] = t.depth[x] + 1], a, v, x, fuel - 1),
                          a, x, p, i + 1, fuel)
             ELSE DfsLoop(t, a, x, p, i + 1, fuel)

\* a slip: the second lookup is left out, the level repeats the one below
UpLevelRepeated(prev, up0) == prev

\* lines 16-19: level k of up from level k - 1
UpLevel(prev, up0) ==
    [v \in DOMAIN prev |-> IF prev[v] = -1 THEN -1 ELSE prev[prev[v]]]

\* lines 15-20: the levels 0..(L - 1) of up, from level 0
RECURSIVE UpTable(_, _)
UpTable(up0, L) ==
    IF L = 1
    THEN [j \in {0} |-> up0]
    ELSE LET below == UpTable(up0, L - 1)
         IN  [j \in 0..(L - 1) |-> IF j < L - 1 THEN below[j] ELSE UpLevel(below[L - 2], up0)]

\* Math.max
Max(a, b) == IF a >= b THEN a ELSE b

\* the sequence of the members of a set of numbers, ascending
RECURSIVE Ascending(_)
Ascending(S) ==
    IF S = {} THEN <<>>
    ELSE LET m == CHOOSE x \in S : \A y \in S : x <= y
         IN  <<m>> \o Ascending(S \ {m})

\* the symmetric adjacency lists of the undirected graph on n nodes with
\* the edges E (sets {a, b})
ListsOf(n, E) == [x \in 0..(n - 1) |-> Ascending({y \in 0..(n - 1) : {x, y} \in E /\ x # y})]

\* the nodes of the lists a that are linked to the nodes of S
RECURSIVE Linked(_, _)
Linked(a, S) ==
    LET T == S \cup UNION {{a[x][i] : i \in 1..Len(a[x])} : x \in S}
    IN  IF T = S THEN S ELSE Linked(a, T)

\* the symmetric lists a are those of a tree: connected, with n - 1 edges
IsTree(a) ==
    /\ Linked(a, {0}) = DOMAIN a
    /\ Cardinality(UNION {{{x, a[x][i]} : i \in 1..Len(a[x])} : x \in DOMAIN a})
           = Cardinality(DOMAIN a) - 1

LcaIdle ==
    /\ tadj = <<>> /\ root = 0 /\ LOG = 0 /\ up = <<>> /\ depth = <<>>
    /\ qa = <<>> /\ qu = 0 /\ qv = 0 /\ diff = 0 /\ qk = 0 /\ ret = 0 /\ lpc = "idle"

\* the arguments of the constructor: the symmetric adjacency lists of an
\* undirected graph on at most MaxGraph nodes (of a tree on at most MaxTree
\* nodes, if treesOnly) and an in-range root
LcaArgs(treesOnly) ==
    /\ \E n \in 1..(IF treesOnly THEN MaxTree ELSE MaxGraph) :
         /\ \E E \in SUBSET {{a, b} : a, b \in 0..(n - 1)} :
                /\ \A e \in E : Cardinality(e) = 2
                /\ treesOnly => IsTree(ListsOf(n, E))
                /\ tadj = ListsOf(n, E)
         /\ root \in 0..(n - 1)
    /\ LOG = 0 /\ up = <<>> /\ depth = <<>>
    /\ qa = <<>> /\ qu = 0 /\ qv = 0 /\ diff = 0 /\ qk = 0 /\ ret = 0 /\ lpc = "new"

\* the constructor is given a tree
LcaInit == LcaArgs(TRUE)

\* lines 8-21: the constructor; it throws when dfs overflows the stack
LcaConstruct ==
    /\ lpc = "new"
    /\ LET n == Cardinality(DOMAIN tadj)
           L == CeilLog2(Max(2, n))
           t == Dfs([up0 |-> [v \in 0..(n - 1) |-> -1],
                     depth |-> [v \in 0..(n - 1) |-> 0],
                     overflow |-> FALSE],
                    tadj, root, root, StackLimit(n))
       IN  IF t.overflow
           THEN /\ lpc' = "threw"
                /\ UNCHANGED <<LOG, up, depth>>
           ELSE /\ lpc' = "built"
                /\ LOG' = L
                /\ up' = UpTable(t.up0, L)
                /\ depth' = t.depth
    /\ UNCHANGED <<tadj, root, qa, qu, qv, diff, qk, ret, heapVars, dijVars, astarVars, fnVars>>

\* lines 30-31 of query(u0, v0), the arguments at most margin outside 0..n-1
LcaQueryArgs(margin) ==
    /\ lpc \in {"built", "returned"}
    /\ \E u0, v0 \in (-margin)..(Cardinality(DOMAIN tadj) - 1 + margin) :
         LET swap == JsLt(ArrGet(depth, u0), ArrGet(depth, v0))
             u1 == IF swap THEN v0 ELSE u0
             v1 == IF swap THEN u0 ELSE v0
         IN  /\ qa' = <<u0, v0>>
             /\ qu' = u1
             /\ qv' = v1
             /\ diff' = JsMinus(ArrGet(depth, u1), ArrGet(depth, v1))
    /\ qk' = 0
    /\ ret' = 0
    /\ lpc' = "lift"
    /\ UNCHANGED <<tadj, root, LOG, up, depth, heapVars, dijVars, astarVars, fnVars>>

\* a query with in-range arguments
LcaQuery == LcaQueryArgs(0)

\* a query whose arguments may be one outside the range
LcaQueryAny == LcaQueryArgs(1)

\* a slip: the ancestor reached is written back into level 0 of the table
LcaLiftCaching ==
    /\ lpc = "lift" /\ qk < LOG
    /\ qu' = IF BitSet(diff, qk) THEN ArrGet(up[qk], qu) ELSE qu
    /\ up' = IF BitSet(diff, qk) /\ qu \in DOMAIN up[0]
             THEN [up EXCEPT ![0][qu] = ArrGet(up[qk], qu)]
             ELSE up
    /\ qk' = qk + 1
    /\ UNCHANGED <<tadj, root, LOG, depth, qa, qv, diff, ret, lpc, heapVars, dijVars, astarVars, fnVars>>

\* line 32: one iteration of the first loop
LcaLift ==
    /\ lpc = "lift" /\ qk < LOG
    /\ qu' = IF BitSet(diff, qk) THEN ArrGet(up[qk], qu) ELSE qu
    /\ qk' = qk + 1
    /\ UNCHANGED <<tadj, root, LOG, up, depth, qa, qv, diff, ret, lpc, heapVars, dijVars, astarVars, fnVars>>

\* line 33, after the first loop: u === v returns u
LcaReturnEqual ==
    /\ lpc = "lift" /\ qk = LOG
    /\ qu = qv
    /\ ret' = qu
    /\ lpc' = "returned"
    /\ qu' = 0 /\ qv' = 0 /\ diff' = 0 /\ qk' = 0
    /\ UNCHANGED <<tadj, root, LOG, up, depth, qa, heapVars, dijVars, astarVars, fnVars>>

\* lines 33-34: u !== v, the second loop begins
LcaBeginSearch ==
    /\ lpc = "lift" /\ qk = LOG
    /\ qu # qv
    /\ qk' = LOG - 1
    /\ lpc' = "search"
    /\ UNCHANGED <<tadj, root, LOG, up, depth, qa, qu, qv, diff, ret, heapVars, dijVars, astarVars, fnVars>>

\* a slip: the jump is made whether or not the ancestors differ
LcaSearchJumping ==
    /\ lpc = "search" /\ qk >= 0
    /\ qu' = ArrGet(up[qk], qu) /\ qv' = ArrGet(up[qk], qv)
    /\ qk' = qk - 1
    /\ UNCHANGED <<tadj, root, LOG, up, depth, qa, diff, ret, lpc, heapVars, dijVars, astarVars, fnVars>>

\* lines 35-38: one iteration of the second loop
LcaSearch ==
    /\ lpc = "search" /\ qk >= 0
    /\ IF ArrGet(up[qk], qu) # ArrGet(up[qk], qv)
       THEN qu' = ArrGet(up[qk], qu) /\ qv' = ArrGet(up[qk], qv)
       ELSE UNCHANGED <<qu, qv>>
    /\ qk' = qk - 1
    /\ UNCHANGED <<tadj, root, LOG, up, depth, qa, diff, ret, lpc, heapVars, dijVars, astarVars, fnVars>>

\* line 40
LcaReturnParent ==
    /\ lpc = "search" /\ qk < 0
    /\ ret' = ArrGet(up[0], qu)
    /\ lpc' = "returned"
    /\ qu' = 0 /\ qv' = 0 /\ diff' = 0 /\ qk' = 0
    /\ UNCHANGED <<tadj, root, LOG, up, depth, qa, heapVars, dijVars, astarVars, fnVars>>

----------------------------------------------------------------------------
\* The functions that keep nothing between calls (topologicalSort,
\* quickSort, kruskal, kmpSearch, knapsack): one call, from its arguments to
\* its return.

FnIdle == fn = "" /\ args = <<>> /\ work = <<>> /\ out = <<>> /\ fpc = "idle"

\* the components above at rest
RestIdle == HeapIdle /\ DijIdle /\ AstarIdle /\ LcaIdle

----------------------------------------------------------------------------
\* topologicalSort(adj)  (src/src/binarySearch.ts)

\* the most nodes of a graph given to topologicalSort
MaxTopoNodes == 3
\* the most arcs of such a graph
MaxArcs == 3

\* the targets of the arcs of the list es that leave node x, in their order
RECURSIVE ArcsFrom(_, _)
ArcsFrom(es, x) ==
    IF es = <<>>
    THEN <<>>
    ELSE IF Head(es)[1] = x
         THEN <<Head(es)[2]>> \o ArcsFrom(Tail(es), x)
         ELSE ArcsFrom(Tail(es), x)

\* line 19: indeg after the lists of the nodes x..n-1 are counted, from
\* entry i of the list of x
RECURSIVE CountIndeg(_, _, _, _)
CountIndeg(a, indeg, x, i) ==
    IF x >= Cardinality(DOMAIN a) THEN indeg
    ELSE IF i > Len(a[x]) THEN CountIndeg(a, indeg, x + 1, 1)
    ELSE CountIndeg(a, [indeg EXCEPT ![a[x][i]] = @ + 1], x, i + 1)

\* line 21: the nodes i..n-1 whose indeg is 0, ascending
RECURSIVE Sources(_, _)
Sources(indeg, i) ==
    IF i >= Cardinality(DOMAIN indeg) THEN <<>>
    ELSE IF indeg[i] = 0 THEN <<i>> \o Sources(indeg, i + 1)
    ELSE Sources(indeg, i + 1)

\* a slip: a node is queued while one of its predecessors is still to come
ReadySoon(d) == d <= 1

\* line 28: indeg[v] === 0
Ready(d) == d = 0

\* lines 26-29: the for loop over adj[x], from its entry i; st = [indeg, q]
RECURSIVE Release(_, _, _, _)
Release(a, st, x, i) ==
    IF i > Len(a[x]) THEN st
    ELSE LET y == a[x][i]
             indeg == [st.indeg EXCEPT ![y] = @ - 1]
         IN  Release(a, [indeg |-> indeg,
                         q |-> IF Ready(indeg[y]) THEN Append(st.q, y) ELSE st.q],
                     x, i + 1)

\* lines 23-30: the while loop; the order at its end
RECURSIVE Kahn(_, _, _)
Kahn(a, st, order) ==
    IF Len(st.q) = 0 THEN order
    ELSE LET x == Head(st.q)
         IN  Kahn(a, Release(a, [indeg |-> st.indeg, q |-> Tail(st.q)], x, 1),
                  Append(order, x))

\* topologicalSort(a): Null, or the array returned as <<order>>
topologicalSort(a) ==
    LET n == Cardinality(DOMAIN a)
        indeg == CountIndeg(a, [v \in 0..(n - 1) |-> 0], 0, 1)
        order == Kahn(a, [indeg |-> indeg, q |-> Sources(indeg, 0)], <<>>)
    IN  IF Len(order) # n THEN Null ELSE <<order>>

\* the argument of a call: the adjacency lists of a directed graph on at
\* most MaxTopoNodes nodes with at most MaxArcs arcs, self-loops and
\* repeated arcs among them, in any order
TopoInit ==
    /\ fn = "topologicalSort"
    /\ \E n \in 0..MaxTopoNodes :
           \E es \in SeqsUpTo((0..(n - 1)) \X (0..(n - 1)), MaxArcs) :
               args = <<[x \in 0..(n - 1) |-> ArcsFrom(es, x)]>>
    /\ work = <<>> /\ out = <<>> /\ fpc = "call"

TopoCall ==
    /\ fn = "topologicalSort" /\ fpc = "call"
    /\ out' = topologicalSort(args[1])
    /\ fpc' = "returned"
    /\ UNCHANGED <<fn, args, work, heapVars, dijVars, astarVars, lcaVars>>

InitTopo == RestIdle /\ TopoInit
NextTopo == TopoCall
SpecTopo == InitTopo /\ [][NextTopo]_vars

----------------------------------------------------------------------------
\* quickSort(arr)  (src/src/LCA.ts)
\* work = [a |-> the copy being sorted, calls |-> the calls of qs still to
\* run, the next one first, each as <<l, r>>]

\* the longest array given to quickSort
MaxLen == 4
\* the largest number in such an array
MaxVal == 2

\* a[i] of the array a, undefined outside it
At(a, i) == IF i + 1 \in DOMAIN a THEN a[i + 1] ELSE Undefined

\* line 102: while (a[i] < pivot) i++
RECURSIVE Forward(_, _, _)
Forward(a, pivot, i) == IF JsLt(At(a, i), pivot) THEN Forward(a, pivot, i + 1) ELSE i

\* line 103: while (a[j] > pivot) j--
RECURSIVE Backward(_, _, _)
Backward(a, pivot, j) == IF JsLt(pivot, At(a, j)) THEN Backward(a, pivot, j - 1) ELSE j

\* lines 101-108: the loop while (i <= j); a, i and j at its end
RECURSIVE Partition(_, _, _, _)
Partition(a, pivot, i, j) ==
    IF i > j
    THEN [a |-> a, i |-> i, j |-> j]
    ELSE LET i1 == Forward(a, pivot, i)
             j1 == Backward(a, pivot, j)
         IN  IF i1 <= j1
             THEN Partition([a EXCEPT ![i1 + 1] = a[j1 + 1], ![j1 + 1] = a[i1 + 1]],
                            pivot, i1 + 1, j1 - 1)
             ELSE Partition(a, pivot, i1, j1)

\* the values of l + Math.floor(Math.random() * (r - l + 1))
PivotIdx(l, r) == l..r

\* a slip: the part right of the pivot is not sorted
RecurseLeftOnly(l, r, i, j) == IF l < j THEN <<(<<l, j>>)>> ELSE <<>>

\* lines 109-110: the calls qs(l, r) makes, in their order
Recurse(l, r, i, j) ==
    (IF l < j THEN <<(<<l, j>>)>> ELSE <<>>) \o (IF i < r THEN <<(<<i, r>>)>> ELSE <<>>)

\* the argument of a call: at most MaxLen numbers of 0..MaxVal
QsInit ==
    /\ fn = "quickSort"
    /\ \E arr \in SeqsUpTo(0..MaxVal, MaxLen) : args = <<arr>>
    /\ work = <<>> /\ out = <<>> /\ fpc = "call"

\* lines 95 and 112: the copy, and the call qs(0, a.length - 1)
QsCall ==
    /\ fn = "quickSort" /\ fpc = "call"
    /\ work' = [a |-> args[1], calls |-> <<(<<0, Len(args[1]) - 1>>)>>]
    /\ fpc' = "run"
    /\ UNCHANGED <<fn, args, out, heapVars, dijVars, astarVars, lcaVars>>

\* line 97: a call qs(l, r) with l >= r returns at once
QsTrivial ==
    /\ fn = "quickSort" /\ fpc = "run" /\ Len(work.calls) > 0
    /\ Head(work.calls)[1] >= Head(work.calls)[2]
    /\ work' = [work EXCEPT !.calls = Tail(@)]
    /\ UNCHANGED <<fn, args, out, fpc, heapVars, dijVars, astarVars, lcaVars>>

\* lines 98-110: a call qs(l, r) with l < r, up to its recursive calls
QsPartition ==
    /\ fn = "quickSort" /\ fpc = "run" /\ Len(work.calls) > 0
    /\ LET l == Head(work.calls)[1]
           r == Head(work.calls)[2]
       IN  /\ l < r
           /\ \E pivotIdx \in PivotIdx(l, r) :
                  LET p == Partition(work.a, At(work.a, pivotIdx), l, r)
                  IN  work' = [a |-> p.a,
                               calls |-> Recurse(l, r, p.i, p.j) \o Tail(work.calls)]
    /\ UNCHANGED <<fn, args, out, fpc, heapVars, dijVars, astarVars, lcaVars>>

\* line 113: qs(0, a.length - 1) has returned; a is returned
QsReturn ==
    /\ fn = "quickSort" /\ fpc = "run" /\ Len(work.calls) = 0
    /\ out' = <<work.a>>
    /\ work' = <<>>
    /\ fpc' = "returned"
    /\ UNCHANGED <<fn, args, heapVars, dijVars, astarVars, lcaVars>>

InitQs == RestIdle /\ QsInit
NextQs == QsCall \/ QsTrivial \/ QsPartition \/ QsReturn
\* a call that has started runs on: the engine does not stop it
SpecQs == InitQs /\ [][NextQs]_vars /\ WF_vars(NextQs)

----------------------------------------------------------------------------
\* kruskal(n, edges)  (src/src/dijkstra.ts)
\* An edge is <<a, b, w>>.  The sorted copy and mst hold the edge objects of
\* the argument: here their places in the argument.

\* the most nodes given to kruskal
MaxForest == 3
\* the most edges given to kruskal
MaxLinks == 3
\* the weights of the edges given to kruskal
LinkWeights == {1, 2}

\* the place where index x goes into the sorted index list srt: behind
\* every entry that does not weigh more
RECURSIVE InsertByWeight(_, _, _)
InsertByWeight(es, srt, x) ==
    IF srt = <<>> THEN <<x>>
    ELSE IF es[Head(srt)][3] - es[x][3] > 0
         THEN <<x>> \o srt
         ELSE <<Head(srt)>> \o InsertByWeight(es, Tail(srt), x)

\* line 58: edges.slice().sort((a, b) => a[2] - b[2]), a stable sort; the
\* entries i..Len(es) of es are still to be placed into srt
RECURSIVE SortByWeight(_, _, _)
SortByWeight(es, srt, i) ==
    IF i > Len(es) THEN srt
    ELSE SortByWeight(es, InsertByWeight(es, srt, i), i + 1)

\* lines 61-64: find(x), with the parent array it leaves
RECURSIVE Find(_, _)
Find(par, x) ==
    IF par[x] # x
    THEN LET f == Find(par, par[x])
         IN  [parent |-> [f.parent EXCEPT ![x] = f.root], root |-> f.root]
    ELSE [parent |-> par, root |-> x]

\* a slip: the roots are not looked up, the nodes themselves are linked
UniteNodes(st, x, y) ==
    IF x = y
    THEN [parent |-> st.parent, rank |-> st.rank, united |-> FALSE]
    ELSE [parent |-> [st.parent EXCEPT ![y] = x], rank |-> st.rank, united |-> TRUE]

\* lines 65-72: unite(x, y) on st = [parent, rank], with what it returns
Unite(st, x, y) ==
    LET fa == Find(st.parent, x)
        fb == Find(fa.parent, y)
        a0 == fa.root
        b0 == fb.root
    IN  IF a0 = b0
        THEN [parent |-> fb.parent, rank |-> st.rank, united |-> FALSE]
        ELSE LET a1 == IF st.rank[a0] < st.rank[b0] THEN b0 ELSE a0
                 b1 == IF st.rank[a0] < st.rank[b0] THEN a0 ELSE b0
             IN  [parent |-> [fb.parent EXCEPT ![b1] = a1],
                  rank |-> IF st.rank[a1] = st.rank[b1]
                           THEN [st.rank EXCEPT ![a1] = @ + 1]
                           ELSE st.rank,
                  united |-> TRUE]

\* lines 73-76: the for loop over the sorted edges, from entry i of srt
RECURSIVE Forest(_, _, _, _, _)
Forest(es, srt, i, st, mst) ==
    IF i > Len(srt) THEN mst
    ELSE LET e == es[srt[i]]
             t == Unite(st, e[1], e[2])
         IN  Forest(es, srt, i + 1, t, IF t.united THEN Append(mst, srt[i]) ELSE mst)

\* the places in es of the edges kruskal(n, es) returns, in their order
KruskalPicks(n, es) ==
    Forest(es, SortByWeight(es, <<>>, 1), 1,
           [parent |-> [x \in 0..(n - 1) |-> x], rank |-> [x \in 0..(n - 1) |-> 0]],
           <<>>)

\* kruskal(n, es): the array mst
kruskal(n, es) ==
    LET picks == KruskalPicks(n, es)
    IN  [i \in 1..Len(picks) |-> es[picks[i]]]

\* the edges <<x, y, w>> between the nodes 0..n-1 with x <= y (an edge is
\* undirected), self-loops among them
Links(n) == {e \in (0..(n - 1)) \X (0..(n - 1)) \X LinkWeights : e[1] <= e[2]}

\* the arguments of a call: at most MaxForest nodes and at most MaxLinks
\* edges between them, self-loops and repeated edges among them, in any
\* order
KruskalInit ==
    /\ fn = "kruskal"
    /\ \E n \in 0..MaxForest :
           \E es \in SeqsUpTo(Links(n), MaxLinks) : args = <<n, es>>
    /\ work = <<>> /\ out = <<>> /\ fpc = "call"

KruskalCall ==
    /\ fn = "kruskal" /\ fpc = "call"
    /\ out' = kruskal(args[1], args[2])
    /\ fpc' = "returned"
    /\ UNCHANGED <<fn, args, work, heapVars, dijVars, astarVars, lcaVars>>

InitKruskal == RestIdle /\ KruskalInit
NextKruskal == KruskalCall
SpecKruskal == InitKruskal /\ [][NextKruskal]_vars

----------------------------------------------------------------------------
\* kmpSearch(text, pattern)  (src/src/dfs.ts)
\* A string is the sequence of its characters.

\* the longest text
MaxText == 4
\* the longest pattern
MaxPattern == 3
\* the characters of texts and patterns
Alphabet == {"a", "b"}

\* lines 23 and 30: while (j > 0 && c !== pattern[j]) j = pi[j - 1]
RECURSIVE FallBack(_, _, _, _)
FallBack(pattern, pi, c, j) ==
    IF j > 0 /\ c # pattern[j + 1] THEN FallBack(pattern, pi, c, pi[j]) ELSE j

\* lines 24 and 31: if (c === pattern[j]) j++
Advance(pattern, c, j) == IF c = pattern[j + 1] THEN j + 1 ELSE j

\* lines 21-26: the for loop that fills pi, from index i
RECURSIVE PrefixFunction(_, _, _)
PrefixFunction(pattern, pi, i) ==
    IF i >= Len(pattern) THEN pi
    ELSE LET j == Advance(pattern, pattern[i + 1],
                          FallBack(pattern, pi, pattern[i + 1], pi[i]))
         IN  PrefixFunction(pattern, [pi EXCEPT ![i + 1] = j], i + 1)

\* a slip: after a match the pattern is matched again from its start
AfterMatchRestart(pi, j) == 0

\* line 34: j = pi[j - 1]
AfterMatch(pi, j) == pi[j]

\* lines 29-36: the for loop over the text, from index i
RECURSIVE MatchFrom(_, _, _, _, _, _)
MatchFrom(text, pattern, pi, i, j, results) ==
    IF i >= Len(text) THEN results
    ELSE LET j1 == Advance(pattern, text[i + 1], FallBack(pattern, pi, text[i + 1], j))
         IN  IF j1 = Len(pattern)
             THEN MatchFrom(text, pattern, pi, i + 1, AfterMatch(pi, j1),
                         Append(results, i - Len(pattern) + 1))
             ELSE MatchFrom(text, pattern, pi, i + 1, j1, results)

\* kmpSearch(text, pattern): the array results
kmpSearch(text, pattern) ==
    IF Len(pattern) = 0 THEN <<>>
    ELSE MatchFrom(text, pattern,
                PrefixFunction(pattern, [i \in 1..Len(pattern) |-> 0], 1), 0, 0, <<>>)

\* the arguments of a call: a text of at most MaxText and a pattern of at
\* most MaxPattern characters
KmpInit ==
    /\ fn = "kmpSearch"
    /\ \E text \in SeqsUpTo(Alphabet, MaxText), pattern \in SeqsUpTo(Alphabet, MaxPattern) :
           args = <<text, pattern>>
    /\ work = <<>> /\ out = <<>> /\ fpc = "call"

KmpCall ==
    /\ fn = "kmpSearch" /\ fpc = "call"
    /\ out' = kmpSearch(args[1], args[2])
    /\ fpc' = "returned"
    /\ UNCHANGED <<fn, args, work, heapVars, dijVars, astarVars, lcaVars>>

InitKmp == RestIdle /\ KmpInit
NextKmp == KmpCall
SpecKmp == InitKmp /\ [][NextKmp]_vars

----------------------------------------------------------------------------
\* knapsack(values, weights, W)  (src/src/knapsack.ts)

\* the most items
MaxItems == 3
\* the largest weight of an item
MaxItemWeight == 2
\* the largest value of an item
MaxItemValue == 2
\* the largest capacity
MaxCapacity == 3

\* a slip: the capacities are walked upwards, an item is taken again
CapacitiesUp(W, wi) ==
    IF W < wi THEN <<>> ELSE [x \in 1..(W - wi + 1) |-> wi + x - 1]

\* line 6: the values w takes, W down to weights[i]
CapacitiesDown(W, wi) ==
    IF W < wi THEN <<>> ELSE [x \in 1..(W - wi + 1) |-> W - x + 1]

\* lines 6-8: the inner loop for an item of weight wi and value vi, over
\* the capacities ws from its entry x; dp[w] of the code is dp[w + 1]
RECURSIVE Fill(_, _, _, _, _)
Fill(dp, ws, x, wi, vi) ==
    IF x > Len(ws) THEN dp
    ELSE LET w == ws[x]
         IN  Fill([dp EXCEPT ![w + 1] = Max(dp[w + 1], dp[w - wi + 1] + vi)],
                  ws, x + 1, wi, vi)

\* lines 5-9: the outer loop, from item i (0-based)
RECURSIVE Items(_, _, _, _, _)
Items(dp, vals, wts, W, i) ==
    IF i >= Len(vals) THEN dp
    ELSE Items(Fill(dp, CapacitiesDown(W, wts[i + 1]), 1, wts[i + 1], vals[i + 1]),
               vals, wts, W, i + 1)

\* knapsack(vals, wts, W): dp[W]
knapsack(vals, wts, W) == Items([w \in 1..(W + 1) |-> 0], vals, wts, W, 0)[W + 1]

\* the arguments of a call: at most MaxItems items, as <<value, weight>>,
\* and a capacity
KnapsackInit ==
    /\ fn = "knapsack"
    /\ \E items \in SeqsUpTo((0..MaxItemValue) \X (0..MaxItemWeight), MaxItems) :
           \E W \in 0..MaxCapacity :
               args = <<[i \in 1..Len(items) |-> items[i][1]],
                        [i \in 1..Len(items) |-> items[i][2]], W>>
    /\ work = <<>> /\ out = <<>> /\ fpc = "call"

KnapsackCall ==
    /\ fn = "knapsack" /\ fpc = "call"
    /\ out' = <<knapsack(args[1], args[2], args[3])>>
    /\ fpc' = "returned"
    /\ UNCHANGED <<fn, args, work, heapVars, dijVars, astarVars, lcaVars>>

InitKnapsack == RestIdle /\ KnapsackInit
NextKnapsack == KnapsackCall
SpecKnapsack == InitKnapsack /\ [][NextKnapsack]_vars

----------------------------------------------------------------------------
\* binarySearch(arr, target)  (src/src/binarySearch.ts)

\* the longest array searched
MaxSorted == 4
\* the largest number in such an array
MaxElem == 3

\* a slip: the element right of mid is skipped as well
AboveMidSkipping(mid) == mid + 2

\* line 9: lo = mid + 1
AboveMid(mid) == mid + 1

\* lines 5-12: the while loop, from lo and hi
RECURSIVE Bisect(_, _, _, _)
Bisect(arr, target, lo, hi) ==
    IF lo <= hi
    THEN LET mid == (lo + hi) \div 2
             v == arr[mid + 1]
         IN  IF v = target THEN mid
             ELSE IF v < target THEN Bisect(arr, target, AboveMid(mid), hi)
             ELSE Bisect(arr, target, lo, mid - 1)
    ELSE -1

\* binarySearch(arr, target)
binarySearch(arr, target) == Bisect(arr, target, 0, Len(arr) - 1)

\* the arguments of a call: an array of at most MaxSorted numbers of
\* 0..MaxElem in non-decreasing order, and a target that may lie outside that
\* range
BsInit ==
    /\ fn = "binarySearch"
    /\ \E arr \in SeqsUpTo(0..MaxElem, MaxSorted), target \in (-1)..(MaxElem + 1) :
           /\ \A i \in 1..(Len(arr) - 1) : arr[i] <= arr[i + 1]
           /\ args = <<arr, target>>
    /\ work = <<>> /\ out = <<>> /\ fpc = "call"

BsCall ==
    /\ fn = "binarySearch" /\ fpc = "call"
    /\ out' = <<binarySearch(args[1], args[2])>>
    /\ fpc' = "returned"
    /\ UNCHANGED <<fn, args, work, heapVars, dijVars, astarVars, lcaVars>>

InitBs == RestIdle /\ BsInit
NextBs == BsCall
SpecBs == InitBs /\ [][NextBs]_vars

----------------------------------------------------------------------------
\* gcd(a, b)  (src/src/gcd.ts)
\* work = [a |-> a, b |-> b], the two parameters as the loop changes them

\* the largest absolute value of an argument of gcd
MaxGcdArg == 6

\* a slip: the sign is kept
AbsKept(x) == x

\* line 3: Math.abs
MathAbs(x) == IF x < 0 THEN -x ELSE x

\* x % y of JavaScript for integers x and y # 0: the sign is that of x
JsRem(x, y) ==
    LET r == (IF x < 0 THEN -x ELSE x) % (IF y < 0 THEN -y ELSE y)
    IN  IF x < 0 THEN -r ELSE r

\* the arguments of a call: two integers of either sign
GcdInit ==
    /\ fn = "gcd"
    /\ \E a0, b0 \in (-MaxGcdArg)..MaxGcdArg : args = <<a0, b0>>
    /\ work = <<>> /\ out = <<>> /\ fpc = "call"

\* line 3
GcdCall ==
    /\ fn = "gcd" /\ fpc = "call"
    /\ work' = [a |-> MathAbs(args[1]), b |-> MathAbs(args[2])]
    /\ fpc' = "run"
    /\ UNCHANGED <<fn, args, out, heapVars, dijVars, astarVars, lcaVars>>

\* lines 4-8: one iteration of the while loop
GcdStep ==
    /\ fn = "gcd" /\ fpc = "run"
    /\ work.b # 0
    /\ work' = [a |-> work.b, b |-> JsRem(work.a, work.b)]
    /\ UNCHANGED <<fn, args, out, fpc, heapVars, dijVars, astarVars, lcaVars>>

\* lines 4 and 9: b === 0, a is returned
GcdReturn ==
    /\ fn = "gcd" /\ fpc = "run"
    /\ work.b = 0
    /\ out' = <<work.a>>
    /\ work' = <<>>
    /\ fpc' = "returned"
    /\ UNCHANGED <<fn, args, heapVars, dijVars, astarVars, lcaVars>>

InitGcd == RestIdle /\ GcdInit
NextGcd == GcdCall \/ GcdStep \/ GcdReturn
\* a call that has started runs on
SpecGcd == InitGcd /\ [][NextGcd]_vars /\ WF_vars(NextGcd)

----------------------------------------------------------------------------
\* The specifications.

InitHeap == HeapInit /\ DijIdle /\ AstarIdle /\ LcaIdle /\ FnIdle
NextHeap == Push \/ Pop
SpecHeap == InitHeap /\ [][NextHeap]_vars

NextDij ==
    DijCall \/ DijPopStale \/ DijPopFresh \/ DijRelax \/ DijEndFor \/ DijReturn
InitDij == HeapIdle /\ DijInit /\ AstarIdle /\ LcaIdle /\ FnIdle
SpecDij == InitDij /\ [][NextDij]_vars

\* a call of dijkstra that has started runs on
SpecDijRun == InitDij /\ [][NextDij]_vars /\ WF_vars(NextDij)

InitAstar == HeapIdle /\ DijIdle /\ AstarInit /\ LcaIdle /\ FnIdle
NextAstar == AstarCall \/ AstarGoal \/ AstarExpand \/ AstarNull
SpecAstar == InitAstar /\ [][NextAstar]_vars

InitLca == HeapIdle /\ DijIdle /\ AstarIdle /\ LcaInit /\ FnIdle
NextLca ==
    \/ LcaConstruct \/ LcaQuery \/ LcaLift \/ LcaReturnEqual
    \/ LcaBeginSearch \/ LcaSearch \/ LcaReturnParent
SpecLca == InitLca /\ [][NextLca]_vars

\* Any use of the components, the arguments not held to their
\* preconditions: a source, a cell or a query node may lie one outside its
\* range, and the lists given to the LCA constructor may be those of any
\* undirected graph.
Init ==
    \/ HeapInit /\ DijIdle /\ AstarIdle /\ LcaIdle /\ FnIdle
    \/ HeapIdle /\ DijArgs(1) /\ AstarIdle /\ LcaIdle /\ FnIdle
    \/ HeapIdle /\ DijIdle /\ AstarArgs(1) /\ LcaIdle /\ FnIdle
    \/ HeapIdle /\ DijIdle /\ AstarIdle /\ LcaArgs(FALSE) /\ FnIdle
Next ==
    \/ Push \/ Pop
    \/ DijCall \/ DijPopStale \/ DijPopFresh \/ DijRelax \/ DijEndFor \/ DijReturn
    \/ AstarCall \/ AstarGoal \/ AstarExpand \/ AstarNull
    \/ LcaConstruct \/ LcaQueryAny \/ LcaLift \/ LcaReturnEqual
    \/ LcaBeginSearch \/ LcaSearch \/ LcaReturnParent
Spec == Init /\ [][Next]_vars

----------------------------------------------------------------------------
\* Reference definitions the claims are stated with.

\* how often e occurs in the sequence d
Count(d, e) == Cardinality({i \in 1..Len(d) : d[i] = e})

\* the least of a non-empty set of numbers that are >= 0 or Infinity
NumMin(S) == CHOOSE a \in S : \A b \in S : ~NumGt(a, b)

\* the edges of the adjacency lists a, as <<from, to, weight>>
EdgeSet(a) == UNION {{<<x, a[x][i][1], a[x][i][2]>> : i \in 1..Len(a[x])} : x \in DOMAIN a}

\* one round of Bellman-Ford over the table d: every edge is relaxed
BFRound(a, d) ==
    [x \in DOMAIN a |->
        NumMin({d[x]} \cup {NumPlus(d[e[1]], e[3]) : e \in {f \in EdgeSet(a) : f[2] = x}})]

RECURSIVE BFRounds(_, _, _)
BFRounds(a, d, k) == IF k = 0 THEN d ELSE BFRounds(a, BFRound(a, d), k - 1)

\* the shortest-path distances from s, by Bellman-Ford
BellmanFord(a, s) ==
    BFRounds(a, [x \in DOMAIN a |-> IF x = s THEN 0 ELSE Infinity], Cardinality(DOMAIN a))

\* the nodes a directed path from the nodes of S reaches
RECURSIVE ReachFrom(_, _)
ReachFrom(a, S) ==
    LET T == S \cup {e[2] : e \in {f \in EdgeSet(a) : f[1] \in S}}
    IN  IF T = S THEN S ELSE ReachFrom(a, T)

----------------------------------------------------------------------------
\* The claims.

\* C1: for every graph with non-negative weights and every in-range source,
\* the table dijkstra returns has one entry per node, each equal to the
\* Bellman-Ford shortest-path distance from src: 0 for src itself, and
\* Infinity for exactly the nodes no directed path from src reaches.
C1_DijkstraShortest ==
    (dpc = "done" /\ src \in DOMAIN adj) =>
        /\ DOMAIN dist = DOMAIN adj
        /\ dist = BellmanFord(adj, src)
        /\ dist[src] = 0
        /\ \A x \in DOMAIN adj : dist[x] = Infinity <=> x \notin ReachFrom(adj, {src})

\* a run has returned on a graph with an unreachable node and a node that
\* the first edge of src reaches at a larger cost than its final distance
\* (its entry was written, then lowered)
C1_Witness ==
    /\ dpc = "done" /\ src \in DOMAIN adj
    /\ \E x \in DOMAIN adj : dist[x] = Infinity
    /\ Len(adj[src]) > 0
    /\ adj[src][1][1] # src
    /\ adj[src][1][2] > dist[adj[src][1][1]]

\* the cell c is in bounds and not blocked
Free(g, c) == inBounds(g, c[1], c[2]) /\ g[c[1]][c[2]] # 1

\* the cells one cardinal step from c
Steps(c) == {<<c[1] + 1, c[2]>>, <<c[1] - 1, c[2]>>, <<c[1], c[2] + 1>>, <<c[1], c[2] - 1>>}

\* breadth-first search over the free cells: the number of steps from the
\* cells of the frontier F (d steps from the start, seen the cells of S) to
\* the cell t, Infinity when t is not reached
RECURSIVE BFSFrom(_, _, _, _, _)
BFSFrom(g, F, S, d, t) ==
    IF t \in F THEN d
    ELSE IF F = {} THEN Infinity
    ELSE LET N == {c \in UNION {Steps(f) : f \in F} : Free(g, c) /\ c \notin S}
         IN  BFSFrom(g, N, S \cup N, d + 1, t)

\* the least number of cardinal steps over free cells from s to t
GridDist(g, s, t) == IF Free(g, s) THEN BFSFrom(g, {s}, {s}, 0, t) ELSE Infinity

\* C3: when start and goal are free cells and the goal is reachable over
\* free cells, astarGrid returns a path of exactly (BFS distance + 1) cells.
C3_AstarShortest ==
    (apc \in {"path", "null"} /\ Free(grid, start) /\ Free(grid, goal)
        /\ GridDist(grid, start, goal) # Infinity) =>
        (apc = "path" /\ Len(path) = GridDist(grid, start, goal) + 1)

\* a path was returned that is longer than the Manhattan distance: it goes
\* around a blocked cell
C3_Witness ==
    /\ apc = "path" /\ Free(grid, start) /\ Free(grid, goal)
    /\ Len(path) - 1 > h(goal, start[1], start[2])

\* C5 as stated: for every in-bounds start and goal, a path is returned
\* exactly when cardinal steps over free cells lead from start to goal.
C5_AsStated ==
    (apc \in {"path", "null"}
        /\ inBounds(grid, start[1], start[2]) /\ inBounds(grid, goal[1], goal[2])) =>
        (apc = "path" <=> GridDist(grid, start, goal) # Infinity)

\* C5, amended: for every free start cell and every in-bounds goal, a path
\* is returned exactly when cardinal steps over free cells lead from start
\* to goal; null is returned when the goal is blocked or cut off.
C5_AstarComplete ==
    (apc \in {"path", "null"}
        /\ Free(grid, start) /\ inBounds(grid, goal[1], goal[2])) =>
        (apc = "path" <=> GridDist(grid, start, goal) # Infinity)

\* null was returned for a free goal that blocked cells cut off from the
\* free start
C5_Witness ==
    /\ apc = "null" /\ Free(grid, start) /\ Free(grid, goal)
    /\ GridDist(grid, start, goal) = Infinity

\* C6: on a grid whose start and goal are free cells, a returned path begins
\* with start, ends with goal, consists of free in-bounds cells, and each
\* two consecutive cells are one cardinal step apart.
C6_PathWellFormed ==
    (apc = "path" /\ Free(grid, start) /\ Free(grid, goal)) =>
        /\ Len(path) >= 1
        /\ path[1] = start
        /\ path[Len(path)] = goal
        /\ \A i \in 1..Len(path) : Free(grid, path[i])
        /\ \A i \in 1..(Len(path) - 1) : path[i + 1] \in Steps(path[i])

\* a path of at least three cells was returned on a grid with a blocked cell
C6_Witness ==
    /\ apc = "path" /\ Free(grid, start) /\ Free(grid, goal)
    /\ Len(path) >= 3
    /\ \E x \in DOMAIN grid : \E y \in DOMAIN grid[x] : grid[x][y] = 1

\* the number of edges between node x and the nodes of the frontier F of a
\* breadth-first search (d edges from its start, seen the nodes of S)
RECURSIVE TreeDistFrom(_, _, _, _, _)
TreeDistFrom(a, F, S, d, x) ==
    IF x \in F THEN d
    ELSE IF F = {} THEN Infinity
    ELSE LET N == UNION {{a[y][i] : i \in 1..Len(a[y])} : y \in F} \ S
         IN  TreeDistFrom(a, N, S \cup N, d + 1, x)

\* the depth of x in the tree a rooted at r
RefDepth(a, r, x) == TreeDistFrom(a, {r}, {r}, 0, x)

\* the parent of x # r in the tree a rooted at r
RefParent(a, r, x) ==
    CHOOSE y \in DOMAIN a :
        /\ \E i \in 1..Len(a[x]) : a[x][i] = y
        /\ RefDepth(a, r, y) = RefDepth(a, r, x) - 1

\* the ancestor of x that is j steps above it (j <= depth of x)
RECURSIVE RefAncestor(_, _, _, _)
RefAncestor(a, r, x, j) == IF j = 0 THEN x ELSE RefAncestor(a, r, RefParent(a, r, x), j - 1)

\* the ancestors of x, x among them
RefAncestors(a, r, x) == {RefAncestor(a, r, x, j) : j \in 0..RefDepth(a, r, x)}

\* the naive walk: the deeper node climbs to the depth of the other, then
\* both climb until they meet
RECURSIVE NaiveLca(_, _, _, _)
NaiveLca(a, r, x, y) ==
    IF x = y THEN x
    ELSE IF RefDepth(a, r, x) > RefDepth(a, r, y) THEN NaiveLca(a, r, RefParent(a, r, x), y)
    ELSE IF RefDepth(a, r, x) < RefDepth(a, r, y) THEN NaiveLca(a, r, x, RefParent(a, r, y))
    ELSE NaiveLca(a, r, RefParent(a, r, x), RefParent(a, r, y))

\* the state of an LCA object whose constructor has returned
Constructed == lpc \in {"built", "lift", "search", "returned"}

\* C4: on every tree, for every root and every pair of in-range nodes,
\* query returns a common ancestor of both of which no proper descendant is a
\* common ancestor: the node the naive ancestor walk finds.
C4_QueryIsLca ==
    (lpc = "returned" /\ IsTree(tadj) /\ qa[1] \in DOMAIN tadj /\ qa[2] \in DOMAIN tadj) =>
        LET common == RefAncestors(tadj, root, qa[1]) \cap RefAncestors(tadj, root, qa[2])
        IN  /\ ret \in common
            /\ \A c \in common : ret \in RefAncestors(tadj, root, c) => c = ret
            /\ ret = NaiveLca(tadj, root, qa[1], qa[2])

\* a query has returned for two nodes of different depths in different
\* branches: both loops of query moved a node
C4_Witness ==
    /\ lpc = "returned" /\ IsTree(tadj)
    /\ RefDepth(tadj, root, qa[1]) # RefDepth(tadj, root, qa[2])
    /\ ret \notin {qa[1], qa[2]}

\* C7 as stated: a call of LCA.query, dijkstra or astarGrid with a node id or
\* a coordinate outside the valid index range signals an error: it never
\* returns a result.
C7_AsStated ==
    /\ lpc = "returned" => (qa[1] \in DOMAIN tadj /\ qa[2] \in DOMAIN tadj)
    /\ dpc = "done" => src \in DOMAIN adj
    /\ apc \in {"path", "null"} =>
           (inBounds(grid, start[1], start[2]) /\ inBounds(grid, goal[1], goal[2]))

\* C8 as stated: the constructor returns only when the lists it was given are
\* those of a tree; on any other input it fails.
C8_AsStated == Constructed => IsTree(tadj)

\* C9 as stated: up[k][v] is the ancestor 2^k steps above v when v has at
\* least 2^k ancestors, and -1 when it has fewer.
C9_AsStated ==
    (Constructed /\ IsTree(tadj)) =>
        \A j \in 0..(LOG - 1) : \A v \in DOMAIN tadj :
            up[j][v] = IF RefDepth(tadj, root, v) >= Pow2(j)
                       THEN RefAncestor(tadj, root, v, Pow2(j))
                       ELSE -1

\* C9, amended: up[k][v] is the ancestor 2^k steps above v when v has at
\* least 2^k ancestors, and the root when it has fewer (the root is its own
\* parent, up[0][root] = root); no entry of the table of a tree is -1.
C9_UpTable ==
    (Constructed /\ IsTree(tadj)) =>
        /\ DOMAIN up = 0..(LOG - 1)
        /\ \A j \in 0..(LOG - 1) : \A v \in DOMAIN tadj :
               up[j][v] = IF RefDepth(tadj, root, v) >= Pow2(j)
                          THEN RefAncestor(tadj, root, v, Pow2(j))
                          ELSE root

\* a table was built with a level 1, for a tree with a node two or more
\* steps below the root and a node other than the root less than two steps
\* below it
C9_Witness ==
    /\ lpc = "built" /\ IsTree(tadj) /\ LOG >= 2
    /\ \E v \in DOMAIN tadj : RefDepth(tadj, root, v) >= 2
    /\ \E v \in DOMAIN tadj : v # root /\ RefDepth(tadj, root, v) < 2

\* C2: in any interleaving of push and pop, a pop on a non-empty heap
\* returns an entry whose key is <= the key of every entry left in the heap.
C2_PopReturnsMinimum ==
    (hop = "pop" /\ res # Null) =>
        \A i \in 1..Len(data) : res[1].key <= data[i].key

\* a pop has returned an entry and left entries of a larger and of an
\* equal key behind
C2_Witness ==
    /\ hop = "pop" /\ res # Null
    /\ \E i, j \in 1..Len(data) : data[i].key > res[1].key /\ data[j].key = res[1].key

\* C10: pop on an empty heap returns null and leaves the heap empty; pop on a
\* non-empty heap never returns null and removes exactly one entry, the one
\* it returns.
C10_PopEmptySignal ==
    [][hop' = "pop" =>
         IF Len(data) = 0
         THEN res' = Null /\ data' = <<>>
         ELSE /\ res' # Null
              /\ Len(data') = Len(data) - 1
              /\ \A i \in 1..Len(data) :
                     Count(data, data[i]) =
                         Count(data', data[i]) + (IF res'[1] = data[i] THEN 1 ELSE 0)]_vars

\* pop has returned null on an empty heap
C10_Witness == hop = "pop" /\ res = Null /\ data = <<>>

\* the entries of the sequence d as a bag
SeqBag(d) == [e \in {d[i] : i \in 1..Len(d)} |-> Count(d, e)]

\* C11: a push adds exactly the entry pushed to the multiset of entries held
\* (an equal entry already held stays), a pop takes out exactly the entry it
\* returns, and size() is the number of entries of the multiset; the heap
\* starting empty, the multiset held is that of the pushed entries minus
\* that of the entries returned.
C11_MultisetKept ==
    [][/\ hop' = "push" =>
             \E pk \in 0..MaxKey, pv \in Payloads :
                 /\ data' = HeapPush(data, pk, pv)
                 /\ SeqBag(data') = SeqBag(data) (+) SetToBag({Entry(pk, pv)})
       /\ hop' = "pop" =>
             SeqBag(data) =
                 SeqBag(data') (+) (IF res' = Null THEN EmptyBag ELSE SetToBag({res'[1]}))
       /\ HeapSize(data') = BagCardinality(SeqBag(data'))]_vars

\* a push has stored an entry equal to one already held, next to an entry
\* of the same key and another value
C11_Witness ==
    /\ hop = "push"
    /\ \E i, j, l \in 1..Len(data) :
           /\ i # j /\ data[i] = data[j]
           /\ data[l].key = data[i].key /\ data[l].val # data[i].val

\* C12: on every tree and for every root, query(u, u) returns u.
C12_QuerySelf ==
    (lpc = "returned" /\ IsTree(tadj) /\ qa[1] \in DOMAIN tadj /\ qa[1] = qa[2]) =>
        ret = qa[1]

\* query(u, u) has returned for a node u two or more edges below the root
C12_Witness ==
    /\ lpc = "returned" /\ IsTree(tadj)
    /\ qa[1] = qa[2] /\ RefDepth(tadj, root, qa[1]) >= 2 /\ ret = qa[1]

\* C13: once the constructor has returned, no step of a query changes up,
\* depth, n (the number of adjacency lists) or LOG, and what a query returns
\* is determined by the tree, the root and its two arguments alone.
C13_QueryReadOnly ==
    [][Constructed =>
         /\ up' = up /\ depth' = depth /\ LOG' = LOG
         /\ Cardinality(DOMAIN tadj') = Cardinality(DOMAIN tadj)
         /\ (lpc' = "returned" /\ IsTree(tadj)) =>
                ret' = NaiveLca(tadj, root, qa'[1], qa'[2])]_vars

\* a query whose two loops both moved a node has returned, the tables as
\* the constructor left them
C13_Witness ==
    /\ lpc = "returned" /\ IsTree(tadj) /\ LOG >= 2
    /\ RefDepth(tadj, root, qa[1]) > RefDepth(tadj, root, qa[2])
    /\ ret \notin {qa[1], qa[2]}
    /\ \A v \in DOMAIN tadj : depth[v] = RefDepth(tadj, root, v)

\* C14: no step of dijkstra changes adj, no step of astarGrid changes grid,
\* start or goal, and no step of the LCA constructor or of query changes the
\* adjacency lists.
C14_InputsKept ==
    [][/\ adj' = adj
       /\ grid' = grid /\ start' = start /\ goal' = goal
       /\ tadj' = tadj]_vars

\* astarGrid has expanded cells of a grid with blocked cells and returned a
\* path, the grid still as it was passed in
C14_Witness ==
    /\ apc = "path" /\ Len(path) >= 3
    /\ \E x \in DOMAIN grid : \E y \in DOMAIN grid[x] : grid[x][y] = 1
    /\ \A i \in 1..Len(path) :
           inBounds(grid, path[i][1], path[i][2]) /\ grid[path[i][1]][path[i][2]] = 0

\* C15: on every grid and for every in-bounds start, blocked or free, a call
\* with goal = start returns the path of the one cell start.
C15_StartIsGoal ==
    (apc \in {"path", "null"} /\ start = goal /\ inBounds(grid, start[1], start[2])) =>
        apc = "path" /\ path = <<start>>

\* a call with goal = start has returned on a grid of several cells, start
\* not in the corner (0, 0)
C15_Witness ==
    /\ apc = "path" /\ start = goal /\ path = <<start>>
    /\ start[1] > 0 /\ start[2] > 0

\* the nodes the arcs of a lead to from the nodes of S
Succ(a, S) == UNION {{a[x][i] : i \in 1..Len(a[x])} : x \in S}

\* the nodes reached from the nodes of S by zero or more arcs
RECURSIVE Closure(_, _)
Closure(a, S) == IF Succ(a, S) \subseteq S THEN S ELSE Closure(a, S \cup Succ(a, S))

\* some node is reached from itself by one or more arcs
HasCycle(a) == \E x \in DOMAIN a : x \in Closure(a, Succ(a, {x}))

\* the place of x in the sequence o
Place(o, x) == CHOOSE i \in 1..Len(o) : o[i] = x

\* C16: topologicalSort returns null exactly when the graph has a directed
\* cycle (a self-loop is one); otherwise it returns every node exactly once,
\* the tail of every arc before its head.
C16_TopologicalOrder ==
    (fn = "topologicalSort" /\ fpc = "returned") =>
        LET a == args[1]
        IN  /\ (out = Null) <=> HasCycle(a)
            /\ out # Null =>
                   /\ Len(out[1]) = Cardinality(DOMAIN a)
                   /\ \A x \in DOMAIN a : \E i \in 1..Len(out[1]) : out[1][i] = x
                   /\ \A x \in DOMAIN a : \A i \in 1..Len(a[x]) :
                          Place(out[1], x) < Place(out[1], a[x][i])

\* an order has been returned that puts a higher node before a lower one,
\* for a graph with a node of two predecessors
C16_Witness ==
    /\ fn = "topologicalSort" /\ fpc = "returned" /\ out # Null
    /\ \E i \in 1..(Len(out[1]) - 1) : out[1][i] > out[1][i + 1]
    /\ \E x, y, z \in DOMAIN args[1] :
           /\ x # y
           /\ \E i \in 1..Len(args[1][x]) : args[1][x][i] = z
           /\ \E i \in 1..Len(args[1][y]) : args[1][y][i] = z

\* C17: whatever pivots are drawn, quickSort returns, and what it returns is
\* a permutation of its argument in non-decreasing order.
C17_QuickSortSorts ==
    /\ [](fn = "quickSort" => <>(fpc = "returned"))
    /\ []((fn = "quickSort" /\ fpc = "returned") =>
             /\ Len(out[1]) = Len(args[1])
             /\ \A x \in 0..MaxVal : Count(out[1], x) = Count(args[1], x)
             /\ \A i \in 1..(Len(out[1]) - 1) : out[1][i] <= out[1][i + 1])

\* an array of MaxLen numbers that was neither ascending nor free of
\* repeated numbers has been returned sorted
C17_Witness ==
    /\ fn = "quickSort" /\ fpc = "returned"
    /\ Len(args[1]) = MaxLen /\ out[1] # args[1]
    /\ \E i, j \in 1..MaxLen : i # j /\ args[1][i] = args[1][j]
    /\ \E i, j \in 1..MaxLen : i < j /\ args[1][i] > args[1][j]

\* the nodes joined to x by the edges of es whose places are in T
RECURSIVE Joined(_, _, _)
Joined(es, T, S) ==
    LET N == {es[i][1] : i \in {j \in T : es[j][2] \in S}}
             \cup {es[i][2] : i \in {j \in T : es[j][1] \in S}}
    IN  IF N \subseteq S THEN S ELSE Joined(es, T, S \cup N)

\* the number of connected components of 0..n-1 under the edges at T
Components(n, es, T) == Cardinality({Joined(es, T, {x}) : x \in 0..(n - 1)})

\* the edges at T hold no cycle and connect what all the edges connect,
\* which leave c components: T leaves c components with n - c edges
SpanningForest(n, es, T, c) ==
    /\ Cardinality(T) = n - c
    /\ Components(n, es, T) = c

\* the total weight of the edges at T
RECURSIVE Weight(_, _)
Weight(es, T) ==
    IF T = {} THEN 0
    ELSE LET i == CHOOSE j \in T : TRUE IN es[i][3] + Weight(es, T \ {i})

\* C18: kruskal returns edges of its argument, each at most as often as it
\* was given, that hold no cycle, connect every two nodes the given edges
\* connect, and weigh no more than any other such choice of edges.
C18_KruskalMinimum ==
    (fn = "kruskal" /\ fpc = "returned") =>
        LET n == args[1]
            es == args[2]
            picks == KruskalPicks(n, es)
            T == {picks[i] : i \in 1..Len(picks)}
            c == Components(n, es, 1..Len(es))
        IN  /\ Len(out) = Len(picks) /\ \A i \in 1..Len(out) : out[i] = es[picks[i]]
            /\ T \subseteq 1..Len(es) /\ Cardinality(T) = Len(picks)
            /\ SpanningForest(n, es, T, c)
            /\ \A U \in SUBSET (1..Len(es)) :
                   SpanningForest(n, es, U, c) => Weight(es, T) <= Weight(es, U)

\* kruskal was given a triangle whose heaviest edge came first, and has
\* left that edge out
C18_Witness ==
    /\ fn = "kruskal" /\ fpc = "returned"
    /\ args[1] = 3 /\ Len(args[2]) = 3 /\ Len(out) = 2
    /\ Components(3, args[2], {1, 2}) = 1 /\ Components(3, args[2], {2, 3}) = 1
    /\ Components(3, args[2], {1, 3}) = 1
    /\ args[2][1][3] > args[2][2][3] /\ args[2][1][3] > args[2][3][3]
    /\ \A i \in 1..2 : out[i] # args[2][1]

\* the pattern occurs in the text at index i (0-based)
OccursAt(text, pattern, i) ==
    /\ i >= 0 /\ i + Len(pattern) <= Len(text)
    /\ \A x \in 1..Len(pattern) : text[i + x] = pattern[x]

\* C19: for a non-empty pattern kmpSearch returns, ascending and each once,
\* exactly the indices at which the pattern occurs in the text, overlapping
\* occurrences among them; for the empty pattern it returns the empty list.
C19_KmpAllOccurrences ==
    (fn = "kmpSearch" /\ fpc = "returned") =>
        LET text == args[1]
            pattern == args[2]
        IN  IF Len(pattern) = 0
            THEN out = <<>>
            ELSE /\ \A x \in 1..(Len(out) - 1) : out[x] < out[x + 1]
                 /\ {out[x] : x \in 1..Len(out)} =
                        {i \in 0..Len(text) : OccursAt(text, pattern, i)}

\* two occurrences that overlap have been returned
C19_Witness ==
    /\ fn = "kmpSearch" /\ fpc = "returned"
    /\ Len(args[2]) >= 2
    /\ \E x \in 1..(Len(out) - 1) : out[x + 1] - out[x] < Len(args[2])

\* the sum of the entries of the sequence q at the places of S
RECURSIVE SumAt(_, _)
SumAt(q, S) ==
    IF S = {} THEN 0
    ELSE LET i == CHOOSE j \in S : TRUE IN q[i] + SumAt(q, S \ {i})

\* C20: knapsack returns the largest total value of a set of items, each
\* taken at most once, whose total weight is at most W.
C20_KnapsackOptimal ==
    (fn = "knapsack" /\ fpc = "returned") =>
        LET vals == args[1]
            wts == args[2]
            fits == {S \in SUBSET (1..Len(vals)) : SumAt(wts, S) <= args[3]}
        IN  /\ \E S \in fits : out[1] = SumAt(vals, S)
            /\ \A S \in fits : out[1] >= SumAt(vals, S)

\* the best choice takes two of three items of value, the third not
\* fitting beside them; one of the two would fit twice
C20_Witness ==
    /\ fn = "knapsack" /\ fpc = "returned" /\ Len(args[1]) = 3
    /\ \E i, j, l \in 1..3 :
           /\ i # j /\ i # l /\ j # l
           /\ args[1][i] > 0 /\ args[1][j] > 0 /\ args[1][l] > 0
           /\ out[1] = args[1][i] + args[1][j]
           /\ args[2][i] + args[2][j] <= args[3]
           /\ args[2][i] + args[2][j] + args[2][l] > args[3]
           /\ args[2][i] > 0 /\ 2 * args[2][i] <= args[3]

\* C21: on an array in non-decreasing order binarySearch returns an index
\* at which the target stands when the target occurs in the array, and -1
\* when it does not.
C21_BinarySearchFinds ==
    (fn = "binarySearch" /\ fpc = "returned") =>
        LET arr == args[1]
            target == args[2]
        IN  IF \E i \in 1..Len(arr) : arr[i] = target
            THEN out[1] \in 0..(Len(arr) - 1) /\ arr[out[1] + 1] = target
            ELSE out[1] = -1

\* a target that stands more than once in an array of MaxSorted numbers,
\* right of the middle, has been found
C21_Witness ==
    /\ fn = "binarySearch" /\ fpc = "returned"
    /\ Len(args[1]) = MaxSorted /\ out[1] > (MaxSorted - 1) \div 2
    /\ Count(args[1], args[2]) >= 2

\* d divides x
Divides(d, x) == \E q \in (-MaxGcdArg - 1)..(MaxGcdArg + 1) : x = d * q

\* the greatest common divisor of x >= 0 and y >= 0, 0 for x = y = 0
RefGcd(x, y) ==
    IF x = 0 /\ y = 0 THEN 0
    ELSE CHOOSE d \in 1..(x + y) :
             /\ Divides(d, x) /\ Divides(d, y)
             /\ \A e \in 1..(x + y) : (Divides(e, x) /\ Divides(e, y)) => e <= d

\* C22: for integers a and b of either sign gcd(a, b) returns, and what it
\* returns is the greatest common divisor of |a| and |b|: |a| for b = 0, 0
\* for a = b = 0.
C22_GcdIsGreatest ==
    /\ [](fn = "gcd" => <>(fpc = "returned"))
    /\ []((fn = "gcd" /\ fpc = "returned") =>
             LET x == IF args[1] < 0 THEN -args[1] ELSE args[1]
                 y == IF args[2] < 0 THEN -args[2] ELSE args[2]
             IN  /\ out[1] = RefGcd(x, y)
                 /\ y = 0 => out[1] = x)

\* gcd has returned a divisor larger than 1 for a negative and a positive
\* argument of which neither divides the other
C22_Witness ==
    /\ fn = "gcd" /\ fpc = "returned"
    /\ args[1] > 0 /\ args[2] < 0 /\ out[1] > 1
    /\ out[1] # args[1] /\ out[1] # -args[2]

\* C23: on a finite graph with non-negative weights and an in-range source
\* the loop of dijkstra reaches the empty queue and the function returns.
C23_DijkstraTerminates == <>(dpc = "done" /\ HeapSize(pq) = 0)

\* dijkstra has returned on a graph in which src lies on a cycle of weight 0
C23_Witness ==
    /\ dpc = "done"
    /\ \E y \in DOMAIN adj :
           /\ <<src, y, 0>> \in EdgeSet(adj) /\ <<y, src, 0>> \in EdgeSet(adj)

\* C24: an iteration that pops an entry (d, u) with d > dist[u] changes no
\* entry of dist and pushes nothing (the queue only loses that entry); an
\* entry with d = dist[u] is not discarded: the for loop starts at the first
\* out-edge of u, walks the out-edges one by one, every one is relaxed, and
\* the loop is left only behind the last.
C24_StaleSkipped ==
    [][/\ (dpc = "loop" /\ HeapSize(pq) # 0) =>
             LET cur == pq[1]
             IN  /\ dist' = dist
                 /\ SeqBag(pq) = SeqBag(pq') (+) SetToBag({cur})
                 /\ IF cur.key > dist[cur.val]
                    THEN dpc' = "loop"
                    ELSE dpc' = "edges" /\ u' = cur.val /\ ei' = 0
       /\ (dpc = "edges" /\ ei < Len(adj[u])) =>
             LET v == adj[u][ei + 1][1]
                 w == adj[u][ei + 1][2]
             IN  /\ dpc' = "edges" /\ ei' = ei + 1 /\ u' = u
                 /\ dist'[v] = NumMin({dist[v], dist[u] + w})
       /\ (dpc = "edges" /\ dpc' = "loop") => ei = Len(adj[u])]_vars

\* the entry about to be popped is stale: its key is larger than the
\* distance recorded for its node
C24_Witness ==
    /\ dpc = "loop" /\ HeapSize(pq) # 0
    /\ pq[1].key > dist[pq[1].val]
    /\ pq[1].val \in expanded

\* C25: after the initialisation every step that changes an entry dist[v]
\* strictly lowers it and pushes (new dist[v], v) onto the queue.
C25_DistOnlyLowers ==
    [][(dpc \in {"loop", "edges"}) =>
         \A x \in DOMAIN dist :
             (dist'[x] # dist[x]) =>
                 (/\ NumGt(dist[x], dist'[x])
                  /\ SeqBag(pq') = SeqBag(pq) (+) SetToBag({Entry(dist'[x], x)}))]_vars

\* the edge just walked has lowered an entry that was finite before: the
\* queue holds the new entry of the node and an older one with a larger key
C25_Witness ==
    /\ dpc = "edges" /\ ei > 0
    /\ LET v == adj[u][ei][1]
           w == adj[u][ei][2]
       IN  /\ dist[v] = dist[u] + w
           /\ \E i, j \in 1..Len(pq) :
                  /\ pq[i] = Entry(dist[v], v)
                  /\ pq[j].val = v /\ pq[j].key > dist[v]

\* C30: with non-negative weights the entry of every iteration that is not
\* stale has a key no smaller than that of the iteration before, belongs to
\* a node no earlier iteration has relaxed, and finds the final distance of
\* its node in dist.
C30_SettledOnPop ==
    [][(dpc = "loop" /\ dpc' = "edges") =>
         LET cur == pq[1]
         IN  /\ cur.key >= lastKey
             /\ cur.val \notin expanded
             /\ cur.key = dist[cur.val]
             /\ dist[cur.val] = BellmanFord(adj, src)[cur.val]]_vars

\* the third node of a run is being relaxed, at a larger key than the first
C30_Witness ==
    /\ dpc = "edges" /\ Cardinality(expanded) >= 3 /\ lastKey > 0
    /\ dist[u] = lastKey

\* C26: after construction on a tree with root r, up[0][v] is the parent of
\* every node v # r and depth[v] = depth[up[0][v]] + 1 is the number of edges
\* between v and r; up[0][r] = r and depth[r] = 0.
C26_ParentAndDepth ==
    (Constructed /\ IsTree(tadj)) =>
        /\ up[0][root] = root /\ depth[root] = 0
        /\ \A v \in DOMAIN tadj \ {root} :
               /\ up[0][v] = RefParent(tadj, root, v)
               /\ depth[v] = depth[up[0][v]] + 1
               /\ depth[v] = RefDepth(tadj, root, v)

\* a table was built for a tree whose root is not node 0, with a node whose
\* parent has a larger number and a node three edges below the root
C26_Witness ==
    /\ lpc = "built" /\ IsTree(tadj) /\ root # 0
    /\ \E v \in DOMAIN tadj : v # root /\ up[0][v] > v
    /\ \E v \in DOMAIN tadj : depth[v] = 3

\* C27: when the first loop of query has run on a tree, the deeper of the
\* two nodes has moved up by exactly the difference of the depths, which is
\* less than 2^LOG: u and v are nodes of the tree at equal depth.
C27_LiftedToEqualDepth ==
    (lpc = "lift" /\ qk = LOG /\ IsTree(tadj)) =>
        LET d1 == RefDepth(tadj, root, qa[1])
            d2 == RefDepth(tadj, root, qa[2])
            deep == IF d1 < d2 THEN qa[2] ELSE qa[1]
            shallow == IF d1 < d2 THEN qa[1] ELSE qa[2]
            gap == IF d1 < d2 THEN d2 - d1 ELSE d1 - d2
        IN  /\ diff = gap /\ gap < Pow2(LOG)
            /\ qv = shallow
            /\ qu = RefAncestor(tadj, root, deep, gap)
            /\ qu \in DOMAIN tadj /\ qv \in DOMAIN tadj
            /\ depth[qu] = depth[qv]

\* the first loop has moved the second argument, the deeper one, up by
\* three edges, a jump at each of two levels, on a tree of five nodes
C27_Witness ==
    /\ lpc = "lift" /\ qk = LOG /\ IsTree(tadj)
    /\ Cardinality(DOMAIN tadj) = 5
    /\ diff = 3 /\ depth[qa[1]] < depth[qa[2]] /\ qv = qa[1]

\* C28: in the second loop of query on a tree, u and v are distinct nodes
\* of equal depth, both strictly below the lowest common ancestor of the two
\* arguments, after every iteration; when the loop ends up[0][u] = up[0][v],
\* that ancestor.
C28_SearchBelowLca ==
    (lpc = "search" /\ IsTree(tadj)) =>
        LET top == NaiveLca(tadj, root, qa[1], qa[2])
        IN  /\ qu \in DOMAIN tadj /\ qv \in DOMAIN tadj /\ qu # qv
            /\ depth[qu] = depth[qv]
            /\ top \in RefAncestors(tadj, root, qu) \ {qu}
            /\ top \in RefAncestors(tadj, root, qv) \ {qv}
            /\ qk < 0 => (up[0][qu] = up[0][qv] /\ up[0][qu] = top)

\* the second loop has ended after a jump: u and v are children of the
\* lowest common ancestor and neither is an argument of the query
C28_Witness ==
    /\ lpc = "search" /\ qk < 0 /\ IsTree(tadj)
    /\ depth[qa[1]] = depth[qa[2]]
    /\ qu \notin {qa[1], qa[2]} /\ qv \notin {qa[1], qa[2]}

\* C29: after every push and every pop, in any sequence, the backing array
\* is in heap order: data[(i-1) >> 1].key <= data[i].key for every index
\* i > 0.
C29_HeapOrder ==
    (hop \in {"push", "pop"}) =>
        \A i \in 1..(Len(data) - 1) :
            data[((i - 1) \div 2) + 1].key <= data[i + 1].key

\* a pop has left three entries of three different keys, the larger child
\* on the left, and has returned an entry that is not above the new root
C29_Witness ==
    /\ hop = "pop" /\ res # Null /\ Len(data) = 3
    /\ data[1].key < data[3].key /\ data[3].key < data[2].key
    /\ res[1].key <= data[1].key

====
